---------------------------- MODULE Spec2Model ----------------------------
(***************************************************************************)
(* Migration risk assessment: the risk scorer (assess_migration.py), the   *)
(* CSV report emitter (generate_reports.py) and the orchestrator           *)
(* (run_assessment.py).                                                    *)
(*                                                                         *)
(* Representation.  Text that the program inspects character by character  *)
(* (package lines, service names, the major version handed to int()) is a  *)
(* sequence of one-character strings.  Text that is only compared or       *)
(* interpolated is a TLA+ string.  A Python float is held as an exact      *)
(* integer number of thousandths ("milli") before round(.,2) and of        *)
(* hundredths ("centi") after it; every weighted score of this program is  *)
(* a multiple of 0.25, which binary floating point holds exactly.          *)
(***************************************************************************)
EXTENDS Integers, Sequences, FiniteSets, TLC

VARIABLES
    \* ---- orchestrator run (run_assessment.main) ----
    pc,                  \* position of the orchestrator
    dir_exists,          \* whether data_dir exists when the run starts
    files,               \* the *_system_info.json files of data_dir, in listdir order
    systems,             \* MigrationAssessment.systems
    assessment_results,  \* MigrationAssessment.assessment_results
    results_file,        \* content of assessment_results.json, or NoFile
    attempted,           \* the reports generate_all_reports has started, in order
    reports,             \* report name -> content written, or NoFile
    exit_status,         \* process exit status once the run has ended, else -1
    error,               \* the exception that ended the run uncaught, or ""
    \* ---- a later run of the report generator (generate_reports.main) ----
    gr_pc,               \* position of that run
    gr_argv,             \* what sys.argv[1] names, or "none" when it is absent
    gr_results,          \* the list load_assessment_results returned
    gr_attempted,        \* the reports that run has started, in order
    gr_reports,          \* report name -> content that run wrote, or NoFile
    gr_exit_status,      \* exit status of that run once it has ended, else -1
    \* ---- one call of assess_system ----
    sc_pc, sc_system, sc_result, sc_matrix,
    \* ---- one call of generate_statistics_report ----
    st_pc, st_total_systems, st_i, st_acc, st_rows

vars == <<pc, dir_exists, files, systems, assessment_results, results_file,
          attempted, reports, exit_status, error,
          gr_pc, gr_argv, gr_results, gr_attempted, gr_reports, gr_exit_status,
          sc_pc, sc_system, sc_result, sc_matrix,
          st_pc, st_total_systems, st_i, st_acc, st_rows>>

run_vars == <<pc, dir_exists, files, systems, assessment_results, results_file,
              attempted, reports, exit_status, error>>

gr_vars == <<gr_pc, gr_argv, gr_results, gr_attempted, gr_reports, gr_exit_status>>

sc_vars == <<sc_pc, sc_system, sc_result, sc_matrix>>

st_vars == <<st_pc, st_total_systems, st_i, st_acc, st_rows>>

-----------------------------------------------------------------------------
(* Bounds of the model *)

\* most fact files in the data directory
MaxHosts == 3

\* most results handed to one generate_statistics_report call
MaxStats == 16

-----------------------------------------------------------------------------
(* Python built-ins used by the program *)

\* dict.get(key, default)
Get(d, key, default) == IF key \in DOMAIN d THEN d[key] ELSE default

\* min(a, b)
Min(a, b) == IF a <= b THEN a ELSE b

\* str(): a character sequence as one string (f-string interpolation)
RECURSIVE Str(_)
Str(text) == IF text = <<>> THEN "" ELSE text[1] \o Str(Tail(text))

UpperToLower ==
    [A |-> "a", B |-> "b", C |-> "c", D |-> "d", E |-> "e", F |-> "f", G |-> "g",
     H |-> "h", I |-> "i", J |-> "j", K |-> "k", L |-> "l", M |-> "m", N |-> "n",
     O |-> "o", P |-> "p", Q |-> "q", R |-> "r", S |-> "s", T |-> "t", U |-> "u",
     V |-> "v", W |-> "w", X |-> "x", Y |-> "y", Z |-> "z"]

\* str.lower()
Lower(text) ==
    [i \in 1..Len(text) |->
        IF text[i] \in DOMAIN UpperToLower THEN UpperToLower[text[i]] ELSE text[i]]

\* needle in hay  (substring containment)
Contains(needle, hay) ==
    \E i \in 0..(Len(hay) - Len(needle)) : SubSeq(hay, i + 1, i + Len(needle)) = needle

\* str.split(sep): the pieces between the separators (always at least one piece)
RECURSIVE SplitFrom(_, _, _)
SplitFrom(text, sep, piece) ==
    IF text = <<>> THEN <<piece>>
    ELSE IF text[1] = sep THEN <<piece>> \o SplitFrom(Tail(text), sep, <<>>)
    ELSE SplitFrom(Tail(text), sep, Append(piece, text[1]))

Split(text, sep) == SplitFrom(text, sep, <<>>)

DigitValue ==
    [c \in {"0", "1", "2", "3", "4", "5", "6", "7", "8", "9"} |->
        CASE c = "0" -> 0 [] c = "1" -> 1 [] c = "2" -> 2 [] c = "3" -> 3 [] c = "4" -> 4
          [] c = "5" -> 5 [] c = "6" -> 6 [] c = "7" -> 7 [] c = "8" -> 8 [] c = "9" -> 9]

\* str.strip() for the blank character
RECURSIVE StripLeft(_)
StripLeft(text) ==
    IF text # <<>> /\ text[1] = " " THEN StripLeft(Tail(text)) ELSE text

RECURSIVE StripRight(_)
StripRight(text) ==
    IF text # <<>> /\ text[Len(text)] = " "
    THEN StripRight(SubSeq(text, 1, Len(text) - 1)) ELSE text

Strip(text) == StripRight(StripLeft(text))

\* the digits of an int() literal once blanks and an optional sign are removed
Unsigned(text) ==
    LET s == Strip(text)
    IN  IF s # <<>> /\ s[1] \in {"+", "-"} THEN Tail(s) ELSE s

\* whether int(text) returns (otherwise it raises ValueError)
IsIntLiteral(text) ==
    /\ Unsigned(text) # <<>>
    /\ \A i \in 1..Len(Unsigned(text)) : Unsigned(text)[i] \in DOMAIN DigitValue

RECURSIVE DigitsValue(_, _)
DigitsValue(digits, acc) ==
    IF digits = <<>> THEN acc
    ELSE DigitsValue(Tail(digits), 10 * acc + DigitValue[digits[1]])

\* int(text) for a text that IsIntLiteral
IntValue(text) ==
    LET s == Strip(text)
        v == DigitsValue(Unsigned(text), 0)
    IN  IF s[1] = "-" THEN 0 - v ELSE v

\* round(x, 2): thousandths to the nearest hundredth, ties to the even hundredth
Round2(milli) ==
    LET q == milli \div 10
        r == milli % 10
    IN  IF r > 5 \/ (r = 5 /\ q % 2 = 1) THEN q + 1 ELSE q

-----------------------------------------------------------------------------
(* assess_migration.py: class constants *)

\* variant: the weights of the first two categories exchanged
WEIGHTS_Swapped ==
    [os_version |-> 25, package_compatibility |-> 30, hardware |-> 20,
     services |-> 15, kernel_modules |-> 10]

WEIGHTS ==
    [os_version |-> 30, package_compatibility |-> 25, hardware |-> 20,
     services |-> 15, kernel_modules |-> 10]

PROBLEMATIC_PACKAGES ==
    << <<"p","y","t","h","o","n","2">>,
       <<"p","y","t","h","o","n","-">>,
       <<"p","y","t","h","o","n","2",".","7">>,
       <<"m","y","s","q","l","-","s","e","r","v","e","r","-","5",".","5">>,
       <<"m","y","s","q","l","-","s","e","r","v","e","r","-","5",".","6">>,
       <<"p","o","s","t","g","r","e","s","q","l","-","9">>,
       <<"p","h","p","5">>,
       <<"p","h","p","-","5">>,
       <<"o","p","e","n","s","s","l","-","1",".","0">>,
       <<"i","p","t","a","b","l","e","s">> >>

PROBLEMATIC_SERVICES ==
    << <<"n","e","t","w","o","r","k",".","s","e","r","v","i","c","e">>,
       <<"i","p","t","a","b","l","e","s",".","s","e","r","v","i","c","e">> >>

(* assess_migration.py: the risk scorer *)

\* a scoring rule that raised instead of returning
Raised(exception) == [exc |-> exception]

\* the dict every assess_*_risk returns; weighted_score = score * weight / 100,
\* held in thousandths
CategoryAssessment(risk_score, category, issues) ==
    [exc |-> "",
     score |-> risk_score,
     weight |-> WEIGHTS[category],
     weighted_score |-> (risk_score * WEIGHTS[category] * 1000) \div 100,
     issues |-> issues]

normalize_os_family(os_family, distribution) ==
    IF os_family \in {"RedHat", "Fedora"} THEN "RedHat"
    ELSE IF os_family \in {"Debian", "Ubuntu"} THEN "Debian"
    ELSE os_family

normalize_package_name(package_line, os_family) ==
    LET parts == Split(package_line, "|")
        whole == [name |-> package_line, version |-> "unknown", arch |-> "unknown"]
    IN  IF os_family = "RedHat" THEN
            IF Len(parts) >= 3
            THEN [name |-> parts[1],
                  version |-> Str(parts[2]) \o "-" \o Str(parts[3]),
                  arch |-> IF Len(parts) > 3 THEN Str(parts[4]) ELSE "unknown"]
            ELSE whole
        ELSE IF os_family = "Debian" THEN
            IF Len(parts) >= 2
            THEN [name |-> parts[1],
                  version |-> Str(parts[2]),
                  arch |-> IF Len(parts) > 2 THEN Str(parts[3]) ELSE "unknown"]
            ELSE whole
        ELSE whole

assess_os_version_risk(system) ==
    LET distribution == Get(system, "distribution", "")
        version == Get(system, "distribution_version", "")
        major_version == Get(system, "distribution_major_version", <<>>)
        current == CategoryAssessment(20, "os_version",
                       <<"OS version is relatively current">>)
    IN  IF distribution = "CentOS" /\ major_version \in {<<"6">>, <<"7">>} THEN
            CategoryAssessment(90, "os_version",
                <<"CentOS " \o Str(major_version)
                      \o " is EOL or near EOL - High migration priority">>)
        ELSE IF distribution = "Ubuntu"
                /\ major_version \in {<<"1", "4">>, <<"1", "6">>, <<"1", "8">>} THEN
            CategoryAssessment(80, "os_version",
                <<"Ubuntu " \o version \o " is EOL or near EOL">>)
        ELSE IF distribution \in {"RedHat", "Red Hat Enterprise Linux"}
                /\ major_version \in {<<"6">>, <<"7">>} THEN
            CategoryAssessment(70, "os_version",
                <<"RHEL " \o Str(major_version) \o " migration recommended">>)
        ELSE IF distribution = "Debian" THEN
            \* int(major_version) is evaluated only once the distribution matched
            IF ~IsIntLiteral(major_version) THEN Raised("ValueError")
            ELSE IF IntValue(major_version) < 10 THEN
                CategoryAssessment(75, "os_version",
                    <<"Debian " \o Str(major_version) \o " is outdated">>)
            ELSE current
        ELSE current

\* variant: the inner loop stops at the first fragment the name contains
RECURSIVE PackageMatches_FirstOnly(_, _)
PackageMatches_FirstOnly(pkg, k) ==
    IF k > Len(PROBLEMATIC_PACKAGES) THEN <<>>
    ELSE IF Contains(PROBLEMATIC_PACKAGES[k], Lower(pkg.name))
         THEN <<Str(pkg.name) \o " (" \o pkg.version \o ")">>
         ELSE PackageMatches_FirstOnly(pkg, k + 1)

\* the inner loop of assess_package_compatibility: one entry per deny-list
\* fragment contained in the lower-cased package name
RECURSIVE PackageMatches(_, _)
PackageMatches(pkg, k) ==
    IF k > Len(PROBLEMATIC_PACKAGES) THEN <<>>
    ELSE (IF Contains(PROBLEMATIC_PACKAGES[k], Lower(pkg.name))
          THEN <<Str(pkg.name) \o " (" \o pkg.version \o ")">> ELSE <<>>)
         \o PackageMatches(pkg, k + 1)

\* the outer loop of assess_package_compatibility: problematic_found
RECURSIVE ProblematicPackagesFound(_, _)
ProblematicPackagesFound(packages, os_family) ==
    IF packages = <<>> THEN <<>>
    ELSE PackageMatches(normalize_package_name(Head(packages), os_family), 1)
         \o ProblematicPackagesFound(Tail(packages), os_family)

assess_package_compatibility(system) ==
    LET packages == Get(system, "packages", <<>>)
        os_family == normalize_os_family(Get(system, "os_family", ""),
                                         Get(system, "distribution", ""))
        problematic_found == ProblematicPackagesFound(packages, os_family)
        n == Len(problematic_found)
    IN  IF problematic_found # <<>> THEN
            CategoryAssessment(Min(100, 40 + n * 10), "package_compatibility",
                <<"Found " \o ToString(n) \o " potentially problematic packages">>
                \o SubSeq(problematic_found, 1, Min(5, n)))
        ELSE
            CategoryAssessment(20, "package_compatibility",
                <<"No major package compatibility concerns detected">>)

\* variant: the baseline of 15 for totals below 30 is left out
HardwareRiskScore_NoFloor(memory_mb, processor_cores) ==
    LET memory_score == IF memory_mb < 2048 THEN 40
                        ELSE IF memory_mb < 4096 THEN 20 ELSE 0
        cpu_score == IF processor_cores < 2 THEN 20 ELSE 0
    IN  Min(100, memory_score + cpu_score)

\* risk_score of assess_hardware_risk: the penalties, the cap, the baseline
HardwareRiskScore(memory_mb, processor_cores) ==
    LET memory_score == IF memory_mb < 2048 THEN 40
                        ELSE IF memory_mb < 4096 THEN 20 ELSE 0
        cpu_score == IF processor_cores < 2 THEN 20 ELSE 0
        capped == Min(100, memory_score + cpu_score)
    IN  IF capped < 30 THEN 15 ELSE capped

\* int() of a JSON number is that number
assess_hardware_risk(system) ==
    LET memory_mb == Get(system, "memtotal_mb", 0)
        processor_cores == Get(system, "processor_cores", 1)
        memory_issue ==
            IF memory_mb < 2048 THEN
                "Low memory: " \o ToString(memory_mb)
                    \o "MB (minimum 2GB recommended for RHEL 8/9)"
            ELSE IF memory_mb < 4096 THEN
                "Moderate memory: " \o ToString(memory_mb) \o "MB (4GB+ recommended)"
            ELSE "Adequate memory: " \o ToString(memory_mb) \o "MB"
        cpu_issue ==
            IF processor_cores < 2 THEN
                "Limited CPU cores: " \o ToString(processor_cores) \o " (2+ recommended)"
            ELSE "Adequate CPU cores: " \o ToString(processor_cores)
    IN  CategoryAssessment(HardwareRiskScore(memory_mb, processor_cores), "hardware",
                           <<memory_issue, cpu_issue>>)

\* variant: the service name is lower-cased before the comparison
RECURSIVE ServiceMatches_Folded(_, _)
ServiceMatches_Folded(service, k) ==
    IF k > Len(PROBLEMATIC_SERVICES) THEN <<>>
    ELSE (IF Contains(PROBLEMATIC_SERVICES[k], Lower(service)) THEN <<service>> ELSE <<>>)
         \o ServiceMatches_Folded(service, k + 1)

\* the inner loop of assess_services_risk (no lower-casing here)
RECURSIVE ServiceMatches(_, _)
ServiceMatches(service, k) ==
    IF k > Len(PROBLEMATIC_SERVICES) THEN <<>>
    ELSE (IF Contains(PROBLEMATIC_SERVICES[k], service) THEN <<service>> ELSE <<>>)
         \o ServiceMatches(service, k + 1)

\* the outer loop of assess_services_risk: problematic_found
RECURSIVE ProblematicServicesFound(_)
ProblematicServicesFound(services) ==
    IF services = <<>> THEN <<>>
    ELSE ServiceMatches(Head(services), 1) \o ProblematicServicesFound(Tail(services))

\* variant: min(100, ...) is left out
assess_services_risk_Uncapped(system) ==
    LET found == ProblematicServicesFound(Get(system, "enabled_services", <<>>))
        n == Len(found)
    IN  IF found # <<>> THEN
            CategoryAssessment(50 + n * 15, "services",
                <<"Found " \o ToString(n) \o " services requiring attention">>
                \o [i \in 1..n |-> Str(found[i])])
        ELSE
            CategoryAssessment(15, "services",
                <<"No critical service compatibility issues detected">>)

assess_services_risk(system) ==
    LET services == Get(system, "enabled_services", <<>>)
        problematic_found == ProblematicServicesFound(services)
        n == Len(problematic_found)
    IN  IF problematic_found # <<>> THEN
            CategoryAssessment(Min(100, 50 + n * 15), "services",
                <<"Found " \o ToString(n) \o " services requiring attention">>
                \o [i \in 1..n |-> Str(problematic_found[i])])
        ELSE
            CategoryAssessment(15, "services",
                <<"No critical service compatibility issues detected">>)

assess_kernel_modules_risk(system) ==
    LET modules == Get(system, "kernel_modules", <<>>)
        module_count == Len(modules)
    IN  IF module_count > 100 THEN
            CategoryAssessment(40, "kernel_modules",
                <<"High number of kernel modules loaded: " \o ToString(module_count)>>)
        ELSE IF module_count > 50 THEN
            CategoryAssessment(25, "kernel_modules",
                <<"Moderate number of kernel modules: " \o ToString(module_count)>>)
        ELSE
            CategoryAssessment(10, "kernel_modules",
                <<"Standard kernel module count: " \o ToString(module_count)>>)

\* the five categories in the order assess_system fills the dict
Categories ==
    <<"os_version", "package_compatibility", "hardware", "services", "kernel_modules">>

\* sum(assessment['weighted_score'] for assessment in assessments.values())
RECURSIVE SumWeighted(_, _)
SumWeighted(assessments, k) ==
    IF k > Len(Categories) THEN 0
    ELSE assessments[Categories[k]].weighted_score + SumWeighted(assessments, k + 1)

\* variant: the thresholds compared with > instead of >=
calculate_overall_risk_Strict(assessments) ==
    LET total_weighted_score == SumWeighted(assessments, 1)
        classified ==
            IF total_weighted_score > 70 * 1000 THEN
                <<"HIGH", "Immediate migration planning required">>
            ELSE IF total_weighted_score > 50 * 1000 THEN
                <<"MEDIUM-HIGH", "Migration should be planned within 6 months">>
            ELSE IF total_weighted_score > 30 * 1000 THEN
                <<"MEDIUM", "Migration can be scheduled in 6-12 months">>
            ELSE <<"LOW", "System is relatively stable, plan migration at convenience">>
    IN  [overall_score |-> Round2(total_weighted_score),
         risk_level |-> classified[1],
         recommendation |-> classified[2]]

calculate_overall_risk(assessments) ==
    LET total_weighted_score == SumWeighted(assessments, 1)
        classified ==
            IF total_weighted_score >= 70 * 1000 THEN
                <<"HIGH", "Immediate migration planning required">>
            ELSE IF total_weighted_score >= 50 * 1000 THEN
                <<"MEDIUM-HIGH", "Migration should be planned within 6 months">>
            ELSE IF total_weighted_score >= 30 * 1000 THEN
                <<"MEDIUM", "Migration can be scheduled in 6-12 months">>
            ELSE <<"LOW", "System is relatively stable, plan migration at convenience">>
    IN  [overall_score |-> Round2(total_weighted_score),
         risk_level |-> classified[1],
         recommendation |-> classified[2]]

\* assess_system: the result dict, or the exception of the first rule that raised.
\* overall_risk_score is in hundredths.  assessment_date (the wall clock) is left out.
assess_system(system) ==
    LET hostname == Get(system, "hostname", "unknown")
        assessments ==
            [os_version |-> assess_os_version_risk(system),
             package_compatibility |-> assess_package_compatibility(system),
             hardware |-> assess_hardware_risk(system),
             services |-> assess_services_risk(system),
             kernel_modules |-> assess_kernel_modules_risk(system)]
        overall == calculate_overall_risk(assessments)
    IN  IF assessments.os_version.exc # "" THEN Raised(assessments.os_version.exc)
        ELSE [exc |-> "",
              hostname |-> hostname,
              fqdn |-> Get(system, "fqdn", hostname),
              os_family |-> normalize_os_family(Get(system, "os_family", ""),
                                                Get(system, "distribution", "")),
              distribution |-> Get(system, "distribution", ""),
              distribution_version |-> Get(system, "distribution_version", ""),
              overall_risk_score |-> overall.overall_score,
              risk_level |-> overall.risk_level,
              recommendation |-> overall.recommendation,
              detailed_assessments |-> assessments]

-----------------------------------------------------------------------------
(* generate_reports.py: the report emitter *)

\* a CSV file: whether it was written, and its data rows (the header is fixed)
NoFile == [written |-> FALSE, rows |-> <<>>]

CsvFile(rows) == [written |-> TRUE, rows |-> rows]

\* one row of the executive summary
ExecutiveRow(result) ==
    LET assessments == Get(result, "detailed_assessments", <<>>)
        Score(category) ==
            IF category \in DOMAIN assessments THEN assessments[category].score ELSE 0
    IN  [Hostname |-> Get(result, "hostname", ""),
         FQDN |-> Get(result, "fqdn", ""),
         OS_Family |-> Get(result, "os_family", ""),
         Distribution |-> Get(result, "distribution", ""),
         Version |-> Get(result, "distribution_version", ""),
         Overall_Risk_Score |-> Get(result, "overall_risk_score", 0),
         Risk_Level |-> Get(result, "risk_level", ""),
         OS_Version_Risk |-> Score("os_version"),
         Package_Risk |-> Score("package_compatibility"),
         Hardware_Risk |-> Score("hardware"),
         Services_Risk |-> Score("services"),
         Modules_Risk |-> Score("kernel_modules"),
         Recommendation |-> Get(result, "recommendation", "")]

generate_executive_summary(results) ==
    [i \in 1..Len(results) |-> ExecutiveRow(results[i])]

\* ' | '.join(str(issue) for issue in issues)
RECURSIVE JoinIssues(_)
JoinIssues(issues) ==
    IF issues = <<>> THEN ""
    ELSE IF Len(issues) = 1 THEN issues[1]
    ELSE issues[1] \o " | " \o JoinIssues(Tail(issues))

\* category.replace('_', ' ').title() on the five category names
CategoryTitle ==
    [os_version |-> "Os Version", package_compatibility |-> "Package Compatibility",
     hardware |-> "Hardware", services |-> "Services",
     kernel_modules |-> "Kernel Modules"]

\* the rows of the detailed report for one host: one per category, in dict order
DetailedRows(result) ==
    LET assessments == result.detailed_assessments
    IN  [k \in 1..Len(Categories) |->
            [Hostname |-> Get(result, "hostname", ""),
             Assessment_Category |-> CategoryTitle[Categories[k]],
             Risk_Score |-> assessments[Categories[k]].score,
             Weight |-> assessments[Categories[k]].weight,
             Weighted_Score |-> assessments[Categories[k]].weighted_score,
             Issues |-> JoinIssues(assessments[Categories[k]].issues)]]

RECURSIVE generate_detailed_report(_)
generate_detailed_report(results) ==
    IF results = <<>> THEN <<>>
    ELSE DetailedRows(Head(results)) \o generate_detailed_report(Tail(results))

\* the sort key of the priority matrix
RiskScoreKey(result) == Get(result, "overall_risk_score", 0)

\* variant: an element goes in front of the elements with an equal key
RECURSIVE InsertDescending_TiesFirst(_, _)
InsertDescending_TiesFirst(result, sorted) ==
    IF sorted = <<>> THEN <<result>>
    ELSE IF RiskScoreKey(Head(sorted)) > RiskScoreKey(result)
         THEN <<Head(sorted)>> \o InsertDescending_TiesFirst(result, Tail(sorted))
         ELSE <<result>> \o sorted

\* where a stable descending sort puts one more element: behind every element
\* whose key is at least as large
RECURSIVE InsertDescending(_, _)
InsertDescending(result, sorted) ==
    IF sorted = <<>> THEN <<result>>
    ELSE IF RiskScoreKey(Head(sorted)) >= RiskScoreKey(result)
         THEN <<Head(sorted)>> \o InsertDescending(result, Tail(sorted))
         ELSE <<result>> \o sorted

\* sorted(results, key=..., reverse=True): stable, equal keys keep input order
RECURSIVE SortedDescending(_, _)
SortedDescending(results, sorted) ==
    IF results = <<>> THEN sorted
    ELSE SortedDescending(Tail(results), InsertDescending(Head(results), sorted))

\* variant: the thresholds compared with > instead of >=
Timeline_Strict(risk_score) ==
    IF risk_score > 70 * 100 THEN "Immediate (0-3 months)"
    ELSE IF risk_score > 50 * 100 THEN "Short-term (3-6 months)"
    ELSE IF risk_score > 30 * 100 THEN "Medium-term (6-12 months)"
    ELSE "Long-term (12+ months)"

\* the timeline of a row, from its risk score in hundredths
Timeline(risk_score) ==
    IF risk_score >= 70 * 100 THEN "Immediate (0-3 months)"
    ELSE IF risk_score >= 50 * 100 THEN "Short-term (3-6 months)"
    ELSE IF risk_score >= 30 * 100 THEN "Medium-term (6-12 months)"
    ELSE "Long-term (12+ months)"

generate_priority_matrix(results) ==
    LET sorted_results == SortedDescending(results, <<>>)
    IN  [idx \in 1..Len(sorted_results) |->
            LET result == sorted_results[idx]
                risk_score == Get(result, "overall_risk_score", 0)
            IN  [Priority |-> idx,
                 Hostname |-> Get(result, "hostname", ""),
                 Distribution |-> Get(result, "distribution", ""),
                 Version |-> Get(result, "distribution_version", ""),
                 Risk_Level |-> Get(result, "risk_level", ""),
                 Risk_Score |-> risk_score,
                 Recommended_Action |-> Get(result, "recommendation", ""),
                 Timeline |-> Timeline(risk_score)]]

\* the four tiers in the order of the risk_levels dict
RiskLevels == <<"HIGH", "MEDIUM-HIGH", "MEDIUM", "LOW">>

\* the counters of generate_statistics_report before its loop
StatsStart ==
    [risk_levels |-> [level \in {"HIGH", "MEDIUM-HIGH", "MEDIUM", "LOW"} |-> 0],
     os_families |-> <<>>,
     distributions |-> <<>>,
     total_risk_score |-> 0]

\* d[key] = d.get(key, 0) + 1
Increment(d, key) == (key :> (Get(d, key, 0) + 1)) @@ d

\* one iteration of the loop of generate_statistics_report
StatsLoopBody(acc, result) ==
    LET risk_level == Get(result, "risk_level", "")
    IN  [risk_levels |->
            IF risk_level \in DOMAIN acc.risk_levels
            THEN [acc.risk_levels EXCEPT ![risk_level] = @ + 1]
            ELSE acc.risk_levels,
         os_families |-> Increment(acc.os_families, Get(result, "os_family", "Unknown")),
         distributions |->
            Increment(acc.distributions, Get(result, "distribution", "Unknown")),
         total_risk_score |->
            acc.total_risk_score + Get(result, "overall_risk_score", 0)]

\* the whole loop
RECURSIVE StatsLoop(_, _)
StatsLoop(acc, results) ==
    IF results = <<>> THEN acc
    ELSE StatsLoop(StatsLoopBody(acc, Head(results)), Tail(results))

\* num / den rounded to an integer, ties to even (exact arithmetic; the quotients
\* that are exact ties here are dyadic, so the floats hold them exactly too)
RoundHalfEven(num, den) ==
    LET q == num \div den
        r == num % den
    IN  IF 2 * r > den \/ (2 * r = den /\ q % 2 = 1) THEN q + 1 ELSE q

\* variant: the percentage cut off after one decimal instead of rounded
FormatPercentage_Truncated(count, total_systems) == (count * 1000) \div total_systems

\* f'{(count / total_systems) * 100:.1f}': the printed decimal, as its number of tenths
FormatPercentage(count, total_systems) == RoundHalfEven(count * 1000, total_systems)

\* f'{total_risk_score / total_systems:.2f}': the printed decimal, in hundredths
FormatAverage(total_risk_score, total_systems) ==
    RoundHalfEven(total_risk_score, total_systems)

\* what generate_statistics_report writes once its loop is done.  The two
\* sorted(...items()) sections are held as sets of rows.
StatisticsContent(acc, total_systems) ==
    [total_systems |-> total_systems,
     average_risk_score |-> FormatAverage(acc.total_risk_score, total_systems),
     risk_level_rows |->
        [k \in 1..Len(RiskLevels) |->
            [level |-> RiskLevels[k],
             count |-> acc.risk_levels[RiskLevels[k]],
             percentage |->
                FormatPercentage(acc.risk_levels[RiskLevels[k]], total_systems)]],
     os_family_rows |->
        {[family |-> f, count |-> acc.os_families[f],
          percentage |-> FormatPercentage(acc.os_families[f], total_systems)]
            : f \in DOMAIN acc.os_families},
     distribution_rows |->
        {[distribution |-> d, count |-> acc.distributions[d],
          percentage |-> FormatPercentage(acc.distributions[d], total_systems)]
            : d \in DOMAIN acc.distributions}]

\* generate_statistics_report on a whole list: nothing is written for an empty one
generate_statistics_report(results) ==
    IF Len(results) = 0 THEN NoFile
    ELSE CsvFile(<<StatisticsContent(StatsLoop(StatsStart, results), Len(results))>>)

-----------------------------------------------------------------------------
(* Host facts the model draws its inputs from *)

L_bash ==  \* 'bash|4.2.46|34.el7|x86_64'
    <<"b","a","s","h","|","4",".","2",".","4","6","|","3","4",".","e","l","7","|","x","8","6","_","6","4">>

L_python27 ==  \* 'python2.7|2.7.5|90.el7|x86_64'
    <<"p","y","t","h","o","n","2",".","7","|","2",".","7",".","5","|","9","0",".","e","l","7","|","x","8","6","_","6","4">>

L_PythonDevel ==  \* 'Python-devel|2.7.5|90.el7|x86_64'
    <<"P","y","t","h","o","n","-","d","e","v","e","l","|","2",".","7",".","5","|","9","0",".","e","l","7","|","x","8","6","_","6","4">>

L_IPTABLES ==  \* 'IPTABLES|1.4.21|35.el7|x86_64'
    <<"I","P","T","A","B","L","E","S","|","1",".","4",".","2","1","|","3","5",".","e","l","7","|","x","8","6","_","6","4">>

L_iptables ==  \* 'iptables|1.4.21|35.el7|x86_64'
    <<"i","p","t","a","b","l","e","s","|","1",".","4",".","2","1","|","3","5",".","e","l","7","|","x","8","6","_","6","4">>

L_php5 ==  \* 'php5|5.6.40|amd64'
    <<"p","h","p","5","|","5",".","6",".","4","0","|","a","m","d","6","4">>

L_openssl ==  \* 'openssl-1.0|1.0.2k'
    <<"o","p","e","n","s","s","l","-","1",".","0","|","1",".","0",".","2","k">>

S_sshd ==  \* 'sshd.service'
    <<"s","s","h","d",".","s","e","r","v","i","c","e">>

S_network ==  \* 'network.service'
    <<"n","e","t","w","o","r","k",".","s","e","r","v","i","c","e">>

S_iptables ==  \* 'iptables.service'
    <<"i","p","t","a","b","l","e","s",".","s","e","r","v","i","c","e">>

S_legacy_network ==  \* 'legacy-network.service'
    <<"l","e","g","a","c","y","-","n","e","t","w","o","r","k",".","s","e","r","v","i","c","e">>

S_old_iptables ==  \* 'old-iptables.service'
    <<"o","l","d","-","i","p","t","a","b","l","e","s",".","s","e","r","v","i","c","e">>

S_IPTABLES ==  \* 'IPTABLES.service'
    <<"I","P","T","A","B","L","E","S",".","s","e","r","v","i","c","e">>

\* a kernel_modules list of the given length
Modules(count) == [i \in 1..count |-> "module"]

\* a dict without some of its keys
Without(d, keys) == [k \in (DOMAIN d) \ keys |-> d[k]]

\* a current host on which no rule fires
BaseHost ==
    [hostname |-> "base", fqdn |-> "base.example.com", os_family |-> "RedHat",
     distribution |-> "Rocky", distribution_version |-> "9.3",
     distribution_major_version |-> <<"9">>,
     memtotal_mb |-> 8192, processor_cores |-> 4,
     packages |-> <<L_bash>>, enabled_services |-> <<S_sshd>>,
     kernel_modules |-> Modules(40)]

Distributions ==
    {"CentOS", "Ubuntu", "RedHat", "Red Hat Enterprise Linux", "Debian", "Rocky", ""}

\* major versions: numeric ones around every rule, and some int() rejects or pads
MajorVersions ==
    {<<"6">>, <<"7">>, <<"9">>, <<"1", "0">>, <<"1", "1">>, <<"1", "4">>,
     <<"1", "6">>, <<"1", "8">>, <<>>, <<"n", "/", "a">>, <<"9", ".", "5">>,
     <<" ", "9">>, <<"-", "1">>}

MemorySizes == {0, 1024, 2047, 2048, 4095, 4096, 8192}

CoreCounts == {0, 1, 2, 4}

OsFamilies == {"RedHat", "Fedora", "Debian", "Ubuntu", "Suse", ""}

\* package lists with 0, 0, 1, 2, 3, 4, 5, 6 and 8 deny-list matches
PackageLists ==
    {<<>>, <<L_bash>>, <<L_iptables>>, <<L_python27>>, <<L_python27, L_bash, L_iptables>>,
     <<L_python27, L_PythonDevel, L_iptables>>,
     <<L_python27, L_PythonDevel, L_iptables, L_php5>>,
     <<L_python27, L_python27, L_PythonDevel, L_iptables>>,
     <<L_python27, L_python27, L_PythonDevel, L_iptables, L_php5, L_openssl>>}

\* service lists with 0, 0, 0, 1, 2, 3, 4 and 5 deny-list matches
ServiceLists ==
    {<<>>, <<S_sshd>>, <<S_IPTABLES>>, <<S_sshd, S_network>>, <<S_network, S_iptables>>,
     <<S_network, S_iptables, S_legacy_network>>,
     <<S_network, S_iptables, S_legacy_network, S_old_iptables>>,
     <<S_network, S_iptables, S_legacy_network, S_old_iptables, S_network>>}

ModuleLists == {Modules(0), Modules(50), Modules(51), Modules(100), Modules(101)}

\* every distribution with every major version
OsHosts ==
    {[BaseHost EXCEPT !.distribution = d, !.distribution_major_version = m,
                      !.distribution_version = Str(m) \o ".0"]
        : d \in Distributions, m \in MajorVersions}

HardwareHosts ==
    {[BaseHost EXCEPT !.memtotal_mb = mem, !.processor_cores = cores]
        : mem \in MemorySizes, cores \in CoreCounts}

PackageHosts ==
    {[BaseHost EXCEPT !.os_family = f, !.packages = p]
        : f \in OsFamilies, p \in PackageLists}

ServiceHosts == {[BaseHost EXCEPT !.enabled_services = s] : s \in ServiceLists}

ModuleHosts == {[BaseHost EXCEPT !.kernel_modules = m] : m \in ModuleLists}

\* hosts that lack one field, or all of them
SparseHosts ==
    {Without(h, {k}) :
        h \in {BaseHost, [BaseHost EXCEPT !.distribution = "Debian"]},
        k \in DOMAIN BaseHost}
    \cup {Without(BaseHost, DOMAIN BaseHost)}

\* combinations of low, middle and high outcomes of the five categories; some
\* of them total exactly 30.00, 50.00 and 70.00
MixedHosts ==
    {[BaseHost EXCEPT !.distribution = os[1], !.distribution_major_version = os[2],
                      !.distribution_version = Str(os[2]) \o ".0",
                      !.packages = p, !.memtotal_mb = hw[1], !.processor_cores = hw[2],
                      !.enabled_services = s, !.kernel_modules = m]
        : os \in {<<"CentOS", <<"7">>>>, <<"Ubuntu", <<"1", "6">>>>,
                  <<"Debian", <<"9">>>>, <<"RedHat", <<"7">>>>, <<"Rocky", <<"9">>>>},
          p \in {<<>>, <<L_python27>>, <<L_python27, L_PythonDevel, L_iptables>>,
                 <<L_python27, L_python27, L_PythonDevel, L_iptables, L_php5, L_openssl>>},
          hw \in {<<1024, 1>>, <<1024, 4>>, <<8192, 4>>},
          s \in {<<>>, <<S_network>>, <<S_network, S_iptables>>,
                 <<S_network, S_iptables, S_legacy_network, S_old_iptables>>},
          m \in {Modules(40), Modules(51), Modules(101)}}

\* hosts whose package or service names differ from a deny-listed identifier
\* in letter case only
CaseHosts ==
    {[BaseHost EXCEPT !.packages = p, !.enabled_services = s]
        : p \in {<<L_bash>>, <<L_IPTABLES>>, <<L_PythonDevel>>},
          s \in {<<S_sshd>>, <<S_IPTABLES>>, <<S_IPTABLES, S_iptables>>}}

\* the host facts one assess_system call is given
Hosts ==
    OsHosts \cup HardwareHosts \cup PackageHosts \cup ServiceHosts \cup ModuleHosts
        \cup SparseHosts \cup MixedHosts \cup CaseHosts

\* the hosts of the fleet the orchestrator is run on: one per risk tier, two that
\* tie, and a Debian host whose facts carry no major version
web01 ==
    [BaseHost EXCEPT !.hostname = "web01", !.fqdn = "web01.example.com",
        !.distribution = "CentOS", !.distribution_version = "7.9",
        !.distribution_major_version = <<"7">>,
        !.memtotal_mb = 1024, !.processor_cores = 1,
        !.packages = <<L_python27, L_python27, L_PythonDevel, L_iptables, L_php5,
                       L_openssl>>,
        !.enabled_services = <<S_network, S_iptables>>,
        !.kernel_modules = Modules(101)]

app01 ==
    [BaseHost EXCEPT !.hostname = "app01", !.fqdn = "app01.example.com",
        !.os_family = "Debian", !.distribution = "Ubuntu",
        !.distribution_version = "16.04", !.distribution_major_version = <<"1", "6">>,
        !.memtotal_mb = 1024, !.packages = <<L_php5, L_openssl>>]

db01 ==
    [BaseHost EXCEPT !.hostname = "db01", !.fqdn = "db01.example.com",
        !.distribution = "RedHat", !.distribution_version = "7.9",
        !.distribution_major_version = <<"7">>]

db02 == [db01 EXCEPT !.hostname = "db02", !.fqdn = "db02.example.com"]

new01 == [BaseHost EXCEPT !.hostname = "new01", !.fqdn = "new01.example.com"]

deb01 ==
    Without([BaseHost EXCEPT !.hostname = "deb01", !.fqdn = "deb01.example.com",
                !.os_family = "Debian", !.distribution = "Debian",
                !.distribution_version = "testing"],
            {"distribution_major_version"})

FleetHosts == {web01, app01, db01, db02, new01, deb01}

\* a fact file: json.load either returns its record or raises
FactFiles ==
    {[parse_ok |-> TRUE, data |-> h] : h \in FleetHosts}
        \cup {[parse_ok |-> FALSE, data |-> <<>>]}

\* sequences of at most n elements of S
SeqUpTo(S, n) == UNION {[1..k -> S] : k \in 0..n}

-----------------------------------------------------------------------------
(* run_assessment.py: the orchestrator, one run *)

ReportNames ==
    <<"executive_summary", "detailed_assessment", "migration_priority",
      "statistics_summary">>

\* load_system_data: the records of the files json.load accepts, in listing order
RECURSIVE LoadedSystems(_)
LoadedSystems(fs) ==
    IF fs = <<>> THEN <<>>
    ELSE (IF Head(fs).parse_ok THEN <<Head(fs).data>> ELSE <<>>)
         \o LoadedSystems(Tail(fs))

\* the report generator has not been run on its own
GrIdle ==
    /\ gr_pc = "idle" /\ gr_argv = "none" /\ gr_results = <<>>
    /\ gr_attempted = <<>>
    /\ gr_reports = [n \in {ReportNames[k] : k \in 1..Len(ReportNames)} |-> NoFile]
    /\ gr_exit_status = -1

RunIdle ==
    /\ GrIdle
    /\ pc = "idle" /\ dir_exists = TRUE /\ files = <<>> /\ systems = <<>>
    /\ assessment_results = <<>> /\ results_file = NoFile /\ attempted = <<>>
    /\ reports = [n \in {ReportNames[k] : k \in 1..Len(ReportNames)} |-> NoFile]
    /\ exit_status = -1 /\ error = ""

ScIdle ==
    /\ sc_pc = "idle" /\ sc_system = BaseHost /\ sc_result = Raised("none")
    /\ sc_matrix = <<>>

StIdle ==
    /\ st_pc = "idle" /\ st_total_systems = 0 /\ st_i = 0
    /\ st_acc = StatsStart /\ st_rows = NoFile

\* the data directory before the run: missing, or holding some fact files
Init ==
    /\ pc = "start"
    /\ dir_exists \in BOOLEAN
    /\ files \in SeqUpTo(FactFiles, MaxHosts)
    /\ (~dir_exists => files = <<>>)
    /\ systems = <<>>
    /\ assessment_results = <<>>
    /\ results_file = NoFile
    /\ attempted = <<>>
    /\ reports = [n \in {ReportNames[k] : k \in 1..Len(ReportNames)} |-> NoFile]
    /\ exit_status = -1
    /\ error = ""
    /\ GrIdle /\ ScIdle /\ StIdle

\* main, lines 28-32: a missing data directory is created (empty)
Bootstrap ==
    /\ pc = "start"
    /\ dir_exists' = TRUE
    /\ pc' = "load"
    /\ UNCHANGED <<files, systems, assessment_results, results_file, attempted,
                   reports, exit_status, error>>

\* run_assessment, lines 313-317: load, and return at once when nothing loaded
LoadSystemData ==
    /\ pc = "load"
    /\ systems' = LoadedSystems(files)
    /\ pc' = IF systems' = <<>> THEN "check" ELSE "assess"
    /\ UNCHANGED <<dir_exists, files, assessment_results, results_file, attempted,
                   reports, exit_status, error>>

\* run_assessment, lines 324-326: one iteration of the loop.  An exception of
\* assess_system is caught nowhere: it ends the process with a traceback.
AssessNext ==
    /\ pc = "assess"
    /\ Len(assessment_results) < Len(systems)
    /\ LET result == assess_system(systems[Len(assessment_results) + 1])
       IN  IF result.exc # ""
           THEN /\ pc' = "crashed"
                /\ exit_status' = 1
                /\ error' = result.exc
                /\ UNCHANGED assessment_results
           ELSE /\ assessment_results' = Append(assessment_results, result)
                /\ pc' = IF Len(assessment_results') = Len(systems)
                         THEN "check" ELSE "assess"
                /\ UNCHANGED <<exit_status, error>>
    /\ UNCHANGED <<dir_exists, files, systems, results_file, attempted, reports>>

\* CheckResults without the test of lines 41-44
CheckResults_NoEmptyCheck ==
    /\ pc = "check"
    /\ pc' = "save"
    /\ UNCHANGED <<dir_exists, files, systems, assessment_results, results_file,
                   attempted, reports, exit_status, error>>

\* main, lines 41-44
CheckResults ==
    /\ pc = "check"
    /\ IF assessment_results = <<>>
       THEN pc' = "exited" /\ exit_status' = 1
       ELSE pc' = "save" /\ UNCHANGED exit_status
    /\ UNCHANGED <<dir_exists, files, systems, assessment_results, results_file,
                   attempted, reports, error>>

\* main, lines 50-53: json.dump; open() or the write may raise OSError
SaveResults ==
    /\ pc = "save"
    /\ \E write_ok \in BOOLEAN :
          IF write_ok
          THEN /\ results_file' = CsvFile(assessment_results)
               /\ pc' = "report"
               /\ UNCHANGED <<exit_status, error>>
          ELSE /\ pc' = "crashed"
               /\ exit_status' = 1
               /\ error' = "OSError"
               /\ UNCHANGED results_file
    /\ UNCHANGED <<dir_exists, files, systems, assessment_results, attempted, reports>>

\* the rows one report generator writes
ReportRows(name, results) ==
    CASE name = "executive_summary" -> CsvFile(generate_executive_summary(results))
      [] name = "detailed_assessment" -> CsvFile(generate_detailed_report(results))
      [] name = "migration_priority" -> CsvFile(generate_priority_matrix(results))
      [] name = "statistics_summary" -> generate_statistics_report(results)

\* generate_all_reports, lines 262-265: the next generate_* call.  Each opens its
\* file for writing; an OSError there is caught nowhere and ends the process.
GenerateNextReport ==
    /\ pc = "report"
    /\ Len(attempted) < Len(ReportNames)
    /\ LET name == ReportNames[Len(attempted) + 1]
       IN  /\ attempted' = Append(attempted, name)
           /\ \E write_ok \in BOOLEAN :
                IF write_ok
                THEN /\ reports' = [reports EXCEPT
                                       ![name] = ReportRows(name, assessment_results)]
                     /\ pc' = IF Len(attempted') = Len(ReportNames)
                              THEN "summary" ELSE "report"
                     /\ UNCHANGED <<exit_status, error>>
                ELSE /\ pc' = "crashed"
                     /\ exit_status' = 1
                     /\ error' = "OSError"
                     /\ UNCHANGED reports
    /\ UNCHANGED <<dir_exists, files, systems, assessment_results, results_file>>

\* main, lines 62-90: the summary is printed and main returns
Summary ==
    /\ pc = "summary"
    /\ pc' = "done"
    /\ exit_status' = 0
    /\ UNCHANGED <<dir_exists, files, systems, assessment_results, results_file,
                   attempted, reports, error>>

\* what the first argument of generate_reports.py may name: nothing (no
\* argument given), the assessment_results.json the orchestrator left (absent
\* when it never wrote it), a file that is not JSON, a file holding []
ResultsArguments == {"none", "results_file", "not_json", "empty_list"}

\* load_assessment_results, lines 22-29: the parsed list, or [] on any
\* exception of open() or json.load.  json.load gives back the list json.dump
\* wrote: the results hold only strings, lists, dicts with string keys, ints
\* and floats, which Python's json writes and reads back unchanged.
load_assessment_results(argv) ==
    CASE argv = "results_file" ->
            IF results_file.written THEN results_file.rows ELSE <<>>
      [] argv = "not_json" -> <<>>
      [] argv = "empty_list" -> <<>>

\* generate_reports.main, lines 275-283, run once the orchestrator has ended:
\* usage and exit status 1 without an argument, else the results are loaded
GrLoad ==
    /\ pc \in {"done", "crashed", "exited"}
    /\ gr_pc = "idle"
    /\ \E argv \in ResultsArguments :
          /\ gr_argv' = argv
          /\ IF argv = "none"
             THEN /\ gr_pc' = "exited"
                  /\ gr_exit_status' = 1
                  /\ UNCHANGED gr_results
             ELSE /\ gr_results' = load_assessment_results(argv)
                  /\ gr_pc' = "loaded"
                  /\ UNCHANGED gr_exit_status
    /\ UNCHANGED <<gr_attempted, gr_reports>>

\* generate_reports.main, lines 285-289: reports only from a non-empty list
GrCheck ==
    /\ gr_pc = "loaded"
    /\ IF gr_results # <<>>
       THEN gr_pc' = "report" /\ UNCHANGED gr_exit_status
       ELSE gr_pc' = "exited" /\ gr_exit_status' = 1
    /\ UNCHANGED <<gr_argv, gr_results, gr_attempted, gr_reports>>

\* generate_all_reports, lines 262-265, called from generate_reports.main: the
\* next generate_* call; after the last one main returns (exit status 0)
GrGenerateNextReport ==
    /\ gr_pc = "report"
    /\ Len(gr_attempted) < Len(ReportNames)
    /\ LET name == ReportNames[Len(gr_attempted) + 1]
       IN  /\ gr_attempted' = Append(gr_attempted, name)
           /\ \E write_ok \in BOOLEAN :
                IF write_ok
                THEN /\ gr_reports' = [gr_reports EXCEPT
                                          ![name] = ReportRows(name, gr_results)]
                     /\ IF Len(gr_attempted') = Len(ReportNames)
                        THEN gr_pc' = "done" /\ gr_exit_status' = 0
                        ELSE gr_pc' = "report" /\ UNCHANGED gr_exit_status
                ELSE /\ gr_pc' = "crashed"
                     /\ gr_exit_status' = 1
                     /\ UNCHANGED gr_reports
    /\ UNCHANGED <<gr_argv, gr_results>>

Next ==
    \/ GrLoad /\ UNCHANGED <<run_vars, sc_vars, st_vars>>
    \/ GrCheck /\ UNCHANGED <<run_vars, sc_vars, st_vars>>
    \/ GrGenerateNextReport /\ UNCHANGED <<run_vars, sc_vars, st_vars>>
    \/ Bootstrap /\ UNCHANGED <<gr_vars, sc_vars, st_vars>>
    \/ LoadSystemData /\ UNCHANGED <<gr_vars, sc_vars, st_vars>>
    \/ AssessNext /\ UNCHANGED <<gr_vars, sc_vars, st_vars>>
    \/ CheckResults /\ UNCHANGED <<gr_vars, sc_vars, st_vars>>
    \/ SaveResults /\ UNCHANGED <<gr_vars, sc_vars, st_vars>>
    \/ GenerateNextReport /\ UNCHANGED <<gr_vars, sc_vars, st_vars>>
    \/ Summary /\ UNCHANGED <<gr_vars, sc_vars, st_vars>>

Spec == Init /\ [][Next]_vars

-----------------------------------------------------------------------------
(* One host through the scorer and the priority matrix *)

ScInit ==
    /\ RunIdle /\ StIdle
    /\ sc_pc = "input"
    /\ sc_system \in Hosts
    /\ sc_result = Raised("none")
    /\ sc_matrix = <<>>

\* assess_system(system)
ScAssessSystem ==
    /\ sc_pc = "input"
    /\ sc_result' = assess_system(sc_system)
    /\ sc_pc' = IF sc_result'.exc = "" THEN "assessed" ELSE "raised"
    /\ UNCHANGED <<sc_system, sc_matrix>>

\* generate_priority_matrix([result])
ScPriorityMatrix ==
    /\ sc_pc = "assessed"
    /\ sc_matrix' = generate_priority_matrix(<<sc_result>>)
    /\ sc_pc' = "reported"
    /\ UNCHANGED <<sc_system, sc_result>>

ScNext ==
    \/ ScAssessSystem /\ UNCHANGED <<run_vars, gr_vars, st_vars>>
    \/ ScPriorityMatrix /\ UNCHANGED <<run_vars, gr_vars, st_vars>>

SpecScore == ScInit /\ [][ScNext]_vars

-----------------------------------------------------------------------------
(* One call of generate_statistics_report, its loop taken one result at a time *)

\* the results a call may be given: what the scorer produces for the fleet
StatsResults == {assess_system(h) : h \in FleetHosts \ {deb01}}

StInit ==
    /\ RunIdle /\ ScIdle
    /\ st_pc = "called"
    /\ st_total_systems \in 0..MaxStats
    /\ st_i = 0
    /\ st_acc = StatsStart
    /\ st_rows = NoFile

\* StatsBegin without the test of line 195
StatsBegin_NoEmptyCheck ==
    /\ st_pc = "called"
    /\ st_pc' = "loop"
    /\ UNCHANGED <<st_total_systems, st_i, st_acc, st_rows>>

\* lines 194-203: total_systems = len(results); return None on an empty list
StatsBegin ==
    /\ st_pc = "called"
    /\ st_pc' = IF st_total_systems = 0 THEN "returned_none" ELSE "loop"
    /\ UNCHANGED <<st_total_systems, st_i, st_acc, st_rows>>

\* lines 205-216: the loop body on the next result
StatsIterate ==
    /\ st_pc = "loop"
    /\ st_i < st_total_systems
    /\ \E result \in StatsResults :
          st_acc' = StatsLoopBody(st_acc, result)
    /\ st_i' = st_i + 1
    /\ UNCHANGED <<st_pc, st_total_systems, st_rows>>

\* lines 218-254: the average (a division by total_systems, which raises
\* ZeroDivisionError on 0 before the file is opened), then the file
StatsWrite ==
    /\ st_pc = "loop"
    /\ st_i = st_total_systems
    /\ IF st_total_systems = 0
       THEN /\ st_pc' = "zero_division"
            /\ UNCHANGED st_rows
       ELSE \E write_ok \in BOOLEAN :
               IF write_ok
               THEN /\ st_rows' = CsvFile(<<StatisticsContent(st_acc, st_total_systems)>>)
                    /\ st_pc' = "written"
               ELSE /\ st_pc' = "raised"
                    /\ UNCHANGED st_rows
    /\ UNCHANGED <<st_total_systems, st_i, st_acc>>

StNext ==
    \/ StatsBegin /\ UNCHANGED <<run_vars, gr_vars, sc_vars>>
    \/ StatsIterate /\ UNCHANGED <<run_vars, gr_vars, sc_vars>>
    \/ StatsWrite /\ UNCHANGED <<run_vars, gr_vars, sc_vars>>

SpecStats == StInit /\ [][StNext]_vars

-----------------------------------------------------------------------------
(* Properties *)

\* the result of the assess_system call has been returned
Scored == sc_pc \in {"assessed", "reported"}

\* position of a risk tier in the order LOW < MEDIUM < MEDIUM-HIGH < HIGH
TierRank(level) ==
    CASE level = "LOW" -> 0 [] level = "MEDIUM" -> 1
      [] level = "MEDIUM-HIGH" -> 2 [] level = "HIGH" -> 3

\* every (overall_risk_score, risk_level) the scorer returns on Hosts
ScorerOutputs ==
    {<<assess_system(h).overall_risk_score, assess_system(h).risk_level>> :
        h \in {g \in Hosts : assess_system(g).exc = ""}}

\* C1: whenever assess_system returns a result, its overall_risk_score (in
\* hundredths) is 30*os + 25*packages + 20*hardware + 15*services + 10*modules of
\* the five category scores, which is the weighted sum score*weight/100 to two
\* decimals; it lies in [0, 100]; the weights are 30, 25, 20, 15, 10; and every
\* category score lies in [0, 100].
C1_OverallIsWeightedSum ==
    Scored =>
        LET a == sc_result.detailed_assessments
        IN  /\ DOMAIN a = {"os_version", "package_compatibility", "hardware",
                           "services", "kernel_modules"}
            /\ \A c \in DOMAIN a : a[c].score \in 0..100
            /\ a.os_version.weight = 30 /\ a.package_compatibility.weight = 25
            /\ a.hardware.weight = 20 /\ a.services.weight = 15
            /\ a.kernel_modules.weight = 10
            /\ sc_result.overall_risk_score =
                  30 * a.os_version.score + 25 * a.package_compatibility.score
                  + 20 * a.hardware.score + 15 * a.services.score
                  + 10 * a.kernel_modules.score
            /\ sc_result.overall_risk_score \in 0..(100 * 100)

\* C1 witness: a host is scored 50.25 (80, 60, 40, 15 and 10 in the categories)
C1_Witness ==
    /\ Scored
    /\ sc_result.overall_risk_score = 5025
    /\ sc_result.detailed_assessments.os_version.score = 80
    /\ sc_result.detailed_assessments.package_compatibility.score = 60

\* C2: the risk_level of a result is decided by its reported overall_risk_score
\* alone (>= 70 HIGH, >= 50 MEDIUM-HIGH, >= 30 MEDIUM, else LOW), and no result
\* the scorer returns with a score at least as high has a lower tier.
C2_TierIsMonotoneFunctionOfScore ==
    Scored =>
        LET score == sc_result.overall_risk_score
            level == sc_result.risk_level
        IN  /\ level = (IF score >= 7000 THEN "HIGH"
                        ELSE IF score >= 5000 THEN "MEDIUM-HIGH"
                        ELSE IF score >= 3000 THEN "MEDIUM" ELSE "LOW")
            /\ \A o \in ScorerOutputs :
                  /\ o[1] >= score => TierRank(o[2]) >= TierRank(level)
                  /\ o[1] = score => o[2] = level

\* C2 witness: a host scored exactly 70.00 is HIGH
C2_Witness ==
    Scored /\ sc_result.overall_risk_score = 7000 /\ sc_result.risk_level = "HIGH"

\* whether a host's facts reach the numeric comparison with a major version
\* that int() rejects
MalformedDebian(system) ==
    /\ Get(system, "distribution", "") = "Debian"
    /\ ~IsIntLiteral(Get(system, "distribution_major_version", <<>>))

\* C3: a host with malformed facts (Debian whose major version is missing, empty
\* or not numeric) does not end the run with its exception, and once the run
\* has ended every other loaded host has its assessment.
C3_MalformedHostIsolated ==
    /\ error # "ValueError"
    /\ pc \in {"done", "crashed", "exited"} =>
          \A i \in 1..Len(systems) :
              ~MalformedDebian(systems[i]) =>
                  \E j \in 1..Len(assessment_results) :
                      assessment_results[j] = assess_system(systems[i])

\* the score the OS-version rules give, first match first
OsRuleTable(distribution, major_version) ==
    IF distribution = "CentOS" /\ major_version \in {<<"6">>, <<"7">>} THEN 90
    ELSE IF distribution = "Ubuntu"
            /\ major_version \in {<<"1", "4">>, <<"1", "6">>, <<"1", "8">>} THEN 80
    ELSE IF distribution \in {"RedHat", "Red Hat Enterprise Linux"}
            /\ major_version \in {<<"6">>, <<"7">>} THEN 70
    ELSE IF distribution = "Debian" /\ IsIntLiteral(major_version)
            /\ IntValue(major_version) < 10 THEN 75
    ELSE 20

\* C4 restricted to the hosts that are scored: their OS-version score follows
\* the rule table, score 20 comes with the single issue "OS version is
\* relatively current", and the issue of CentOS 7 starts with "CentOS 7".
C4_ScoredHostsFollowTable ==
    Scored =>
        LET os == sc_result.detailed_assessments.os_version
            distribution == Get(sc_system, "distribution", "")
            major_version == Get(sc_system, "distribution_major_version", <<>>)
        IN  /\ os.score = OsRuleTable(distribution, major_version)
            /\ os.score = 20 => os.issues = <<"OS version is relatively current">>
            /\ (distribution = "CentOS" /\ major_version = <<"7">>) =>
                  os.issues = <<"CentOS 7" \o
                                " is EOL or near EOL - High migration priority">>

\* C4: every (distribution, major version) pair gets the OS-version score of the
\* rule table: 90, 80, 70, 75 by the first rule that matches and 20 for every
\* other pair.
C4_OsRuleTable ==
    sc_pc # "input" =>
        /\ sc_result.exc = ""
        /\ C4_ScoredHostsFollowTable

\* the package and service match counts of the host being scored
PackageMatchCount ==
    Len(ProblematicPackagesFound(
            Get(sc_system, "packages", <<>>),
            normalize_os_family(Get(sc_system, "os_family", ""),
                                Get(sc_system, "distribution", ""))))

ServiceMatchCount ==
    Len(ProblematicServicesFound(Get(sc_system, "enabled_services", <<>>)))

\* every (match count, score) the two rules return on Hosts
PackageOutcomes ==
    {<<Len(ProblematicPackagesFound(
              Get(h, "packages", <<>>),
              normalize_os_family(Get(h, "os_family", ""), Get(h, "distribution", "")))),
       assess_package_compatibility(h).score>> : h \in Hosts}

ServiceOutcomes ==
    {<<Len(ProblematicServicesFound(Get(h, "enabled_services", <<>>))),
       assess_services_risk(h).score>> : h \in Hosts}

\* C5: the package score is min(100, 40 + 10n) for n >= 1 matches and 20 for
\* none; the services score is min(100, 50 + 15n) for n >= 1 and 15 for none,
\* then with the single issue "No critical service compatibility issues
\* detected"; neither exceeds 100, and a host with at least as many matches as
\* another never has the lower score.
C5_MatchScores ==
    Scored =>
        LET pk == sc_result.detailed_assessments.package_compatibility
            sv == sc_result.detailed_assessments.services
            np == PackageMatchCount
            ns == ServiceMatchCount
        IN  /\ pk.score = (IF np >= 1
                           THEN (IF 40 + 10 * np > 100 THEN 100 ELSE 40 + 10 * np)
                           ELSE 20)
            /\ sv.score = (IF ns >= 1
                           THEN (IF 50 + 15 * ns > 100 THEN 100 ELSE 50 + 15 * ns)
                           ELSE 15)
            /\ ns = 0 =>
                  sv.issues = <<"No critical service compatibility issues detected">>
            /\ pk.score <= 100 /\ sv.score <= 100
            /\ \A o \in PackageOutcomes : o[1] >= np => o[2] >= pk.score
            /\ \A o \in ServiceOutcomes : o[1] >= ns => o[2] >= sv.score

\* C5 witness: a host with more matches than the caps allow for (8 package
\* matches, 5 service matches) is scored 100 in both categories
C5_Witness ==
    /\ Scored
    /\ PackageMatchCount = 8 /\ ServiceMatchCount >= 4
    /\ sc_result.detailed_assessments.package_compatibility.score = 100
    /\ sc_result.detailed_assessments.services.score = 100

\* C6: for a host that states its memory and core count, the hardware score is
\* the penalty (40 below 2048 MB, else 20 below 4096 MB; plus 20 below 2 cores),
\* capped at 100 and replaced by 15 when below 30; 1024 MB with 1 core scores
\* 60 and 8192 MB with 4 cores scores 15; and the issues are one memory string
\* followed by one CPU string.
C6_HardwareScore ==
    (Scored /\ {"memtotal_mb", "processor_cores"} \subseteq DOMAIN sc_system) =>
        LET hw == sc_result.detailed_assessments.hardware
            mem == sc_system.memtotal_mb
            cores == sc_system.processor_cores
            penalty == (IF mem < 2048 THEN 40 ELSE IF mem < 4096 THEN 20 ELSE 0)
                       + (IF cores < 2 THEN 20 ELSE 0)
            capped == IF penalty > 100 THEN 100 ELSE penalty
        IN  /\ hw.score = (IF capped < 30 THEN 15 ELSE capped)
            /\ (mem = 1024 /\ cores = 1) => hw.score = 60
            /\ (mem = 8192 /\ cores = 4) => hw.score = 15
            /\ Len(hw.issues) = 2
            /\ hw.issues[1] \in
                  {"Low memory: " \o ToString(mem)
                       \o "MB (minimum 2GB recommended for RHEL 8/9)",
                   "Moderate memory: " \o ToString(mem) \o "MB (4GB+ recommended)",
                   "Adequate memory: " \o ToString(mem) \o "MB"}
            /\ hw.issues[2] \in
                  {"Limited CPU cores: " \o ToString(cores) \o " (2+ recommended)",
                   "Adequate CPU cores: " \o ToString(cores)}

\* C6 witness: 2048 MB with 4 cores, a penalty of 20, is scored 15
C6_Witness ==
    /\ Scored
    /\ Get(sc_system, "memtotal_mb", 0) = 2048
    /\ Get(sc_system, "processor_cores", 0) = 4
    /\ sc_result.detailed_assessments.hardware.score = 15

\* the priority matrix the run wrote, and the results it was written from
PriorityRows == reports["migration_priority"].rows

\* the (hostname, score) pairs of a sequence that have the given score
WithScore(pairs, score) ==
    LET HasScore(pair) == pair[2] = score
    IN  SelectSeq(pairs, HasScore)

\* C7: once the priority matrix is written, it has one row per result, its
\* scores never increase from one row to the next, the hosts of any one score
\* appear in the order of the input list (so each host appears exactly once),
\* and Priority is the row's position 1..n.
C7_PriorityMatrixOrder ==
    reports["migration_priority"].written =>
        LET rows == PriorityRows
            given == [i \in 1..Len(assessment_results) |->
                        <<assessment_results[i].hostname,
                          assessment_results[i].overall_risk_score>>]
            listed == [i \in 1..Len(rows) |-> <<rows[i].Hostname, rows[i].Risk_Score>>]
        IN  /\ Len(rows) = Len(assessment_results)
            /\ \A i \in 1..Len(rows) : rows[i].Priority = i
            /\ \A i, j \in 1..Len(rows) :
                  i < j => rows[i].Risk_Score >= rows[j].Risk_Score
            /\ \A i \in 1..Len(given) :
                  WithScore(listed, given[i][2]) = WithScore(given, given[i][2])

\* C7 witness: a matrix of three hosts whose input order was not by score and
\* held two different hosts of equal score
C7_Witness ==
    /\ reports["migration_priority"].written
    /\ Len(assessment_results) = 3
    /\ assessment_results[1].overall_risk_score < assessment_results[2].overall_risk_score
    /\ assessment_results[1].overall_risk_score = assessment_results[3].overall_risk_score
    /\ assessment_results[1].hostname # assessment_results[3].hostname
    /\ PriorityRows[2].Hostname = assessment_results[1].hostname

\* C8: the Timeline of a scorer-produced result's priority-matrix row agrees
\* with the result's risk_level: HIGH with Immediate, MEDIUM-HIGH with
\* Short-term, MEDIUM with Medium-term, LOW with Long-term.
C8_TimelineAgreesWithRiskLevel ==
    sc_pc = "reported" =>
        LET row == sc_matrix[1]
        IN  /\ row.Risk_Level = sc_result.risk_level
            /\ row.Risk_Level = "HIGH" <=> row.Timeline = "Immediate (0-3 months)"
            /\ row.Risk_Level = "MEDIUM-HIGH" <=> row.Timeline = "Short-term (3-6 months)"
            /\ row.Risk_Level = "MEDIUM" <=> row.Timeline = "Medium-term (6-12 months)"
            /\ row.Risk_Level = "LOW" <=> row.Timeline = "Long-term (12+ months)"

\* C8 witness: the row of a host scored exactly 50.00
C8_Witness ==
    /\ sc_pc = "reported"
    /\ sc_matrix[1].Risk_Score = 5000
    /\ sc_matrix[1].Timeline = "Short-term (3-6 months)"

\* the sum of the four printed risk-tier percentages, in tenths of a percent
RECURSIVE SumPercentages(_)
SumPercentages(rows) ==
    IF rows = <<>> THEN 0 ELSE Head(rows).percentage + SumPercentages(Tail(rows))

PrintedTierTotal == SumPercentages(st_rows.rows[1].risk_level_rows)

\* C9 as stated: the four printed tier percentages of a written statistics
\* report sum to within 0.1 of 100.0.
C9_SumWithinOneTenth ==
    st_pc = "written" =>
        /\ PrintedTierTotal >= 1000 - 1
        /\ PrintedTierTotal <= 1000 + 1

\* C9 amended: the four printed tier percentages of a written statistics report
\* sum to within 0.2 of 100.0.
C9_SumWithinTwoTenths ==
    st_pc = "written" =>
        /\ PrintedTierTotal >= 1000 - 2
        /\ PrintedTierTotal <= 1000 + 2

\* C9 witness: a report for 16 hosts, split 3/3/3/7, prints 18.8, 18.8, 18.8, 43.8
C9_Witness ==
    /\ st_pc = "written"
    /\ st_total_systems = 16
    /\ PrintedTierTotal = 1002

\* C10: when the run was ended by a report that could not be written, all four
\* reports have been attempted.
C10_OtherReportsStillAttempted ==
    (pc = "crashed" /\ error = "OSError" /\ attempted # <<>>) =>
        Len(attempted) = Len(ReportNames)

\* C11: a call of generate_statistics_report with an empty results list goes
\* from the call straight to its return of None: it never enters the loop,
\* never reaches the division by total_systems or the write of the file, raises
\* nothing, and leaves no statistics file behind.
C11_EmptyResultsReturnNone ==
    st_total_systems = 0 =>
        /\ st_pc \in {"called", "returned_none"}
        /\ st_rows = NoFile
        /\ st_i = 0
        /\ st_acc = StatsStart

\* the call on an empty list has returned
C11_Witness ==
    /\ st_total_systems = 0
    /\ st_pc = "returned_none"
    /\ ~st_rows.written

\* no report of the set has been written
NoneWritten(written_reports) ==
    \A n \in DOMAIN written_reports : ~written_reports[n].written

\* C12: when the fact files of the data directory yield no record (directory
\* missing, empty, or every file unparseable), the orchestrator only ever
\* loads, tests and exits: it ends with exit status 1 and never 0, the results
\* file is never written and no report is started.  Likewise a run of the
\* report generator whose argument names a results file that is absent, is not
\* JSON or holds an empty list only loads, tests and exits with status 1: it
\* starts no report.
C12_NoRecordsNoReports ==
    /\ (\A i \in 1..Len(files) : ~files[i].parse_ok) =>
          /\ pc \in {"start", "load", "check", "exited"}
          /\ exit_status = (IF pc = "exited" THEN 1 ELSE -1)
          /\ ~results_file.written
          /\ attempted = <<>>
          /\ NoneWritten(reports)
    /\ (\/ gr_argv \in {"not_json", "empty_list"}
        \/ gr_argv = "results_file" /\ ~results_file.written) =>
          /\ gr_pc \in {"loaded", "exited"}
          /\ gr_exit_status = (IF gr_pc = "exited" THEN 1 ELSE -1)
          /\ gr_attempted = <<>>
          /\ NoneWritten(gr_reports)

\* C12 witness: every fact file of a non-empty directory was unparseable, the
\* orchestrator exited with status 1, and the report generator then run on the
\* results file it never wrote exited with status 1 as well
C12_Witness ==
    /\ files # <<>>
    /\ pc = "exited" /\ exit_status = 1
    /\ gr_argv = "results_file"
    /\ gr_pc = "exited" /\ gr_exit_status = 1
    /\ NoneWritten(reports) /\ NoneWritten(gr_reports)

\* the normalized names of the packages of the host being scored
PackageNames ==
    LET packages == Get(sc_system, "packages", <<>>)
        os_family == normalize_os_family(Get(sc_system, "os_family", ""),
                                         Get(sc_system, "distribution", ""))
    IN  [i \in 1..Len(packages) |-> normalize_package_name(packages[i], os_family).name]

\* the names of the enabled services of the host being scored
ServiceNames == Get(sc_system, "enabled_services", <<>>)

\* the (entry, fragment) pairs with the fragment contained in the entry's name,
\* letter case ignored / letter case respected
FoldedPairs(names, fragments) ==
    {pair \in (1..Len(names)) \X (1..Len(fragments)) :
        Contains(Lower(fragments[pair[2]]), Lower(names[pair[1]]))}

ExactPairs(names, fragments) ==
    {pair \in (1..Len(names)) \X (1..Len(fragments)) :
        Contains(fragments[pair[2]], names[pair[1]])}

\* the score a rule gives for a number of matches
MatchScore(count, base, step, none) ==
    IF count = 0 THEN none
    ELSE IF base + step * count > 100 THEN 100 ELSE base + step * count

\* C13 as stated: both the package score and the services score count the
\* matches with letter case ignored, so IPTABLES.service counts as a match of
\* iptables.service.
C13_BothCaseInsensitive ==
    Scored =>
        /\ sc_result.detailed_assessments.package_compatibility.score =
              MatchScore(Cardinality(FoldedPairs(PackageNames, PROBLEMATIC_PACKAGES)),
                         40, 10, 20)
        /\ sc_result.detailed_assessments.services.score =
              MatchScore(Cardinality(FoldedPairs(ServiceNames, PROBLEMATIC_SERVICES)),
                         50, 15, 15)

\* C13 amended: package names are matched with letter case ignored, enabled
\* service names with letter case respected: a service name that differs from
\* a deny-listed identifier in letter case only is not counted.
C13_OnlyPackagesCaseInsensitive ==
    Scored =>
        /\ sc_result.detailed_assessments.package_compatibility.score =
              MatchScore(Cardinality(FoldedPairs(PackageNames, PROBLEMATIC_PACKAGES)),
                         40, 10, 20)
        /\ sc_result.detailed_assessments.services.score =
              MatchScore(Cardinality(ExactPairs(ServiceNames, PROBLEMATIC_SERVICES)),
                         50, 15, 15)

\* C13 witness: a host with the package IPTABLES and the service
\* IPTABLES.service only: one package match (score 50), no service match (15)
C13_Witness ==
    /\ Scored
    /\ Get(sc_system, "packages", <<>>) = <<L_IPTABLES>>
    /\ ServiceNames = <<S_IPTABLES>>
    /\ sc_result.detailed_assessments.package_compatibility.score = 50
    /\ sc_result.detailed_assessments.services.score = 15
    /\ sc_result.detailed_assessments.services.issues =
          <<"No critical service compatibility issues detected">>

\* the numeric and the list fields of a host record
NumericFields == {"memtotal_mb", "processor_cores"}

ListFields == {"packages", "enabled_services", "kernel_modules"}

\* the fields the host being scored lacks
MissingFields == (DOMAIN BaseHost) \ (DOMAIN sc_system)

\* the host being scored, each missing numeric field set to 0 and each missing
\* list field to the empty list
FilledSystem ==
    [k \in (DOMAIN sc_system) \cup NumericFields \cup ListFields |->
        IF k \in DOMAIN sc_system THEN sc_system[k]
        ELSE IF k \in NumericFields THEN 0 ELSE <<>>]

\* C14: a host record that lacks a field is scored, never ends the call with
\* an exception, and its hardware, package, services and kernel-module
\* assessments (score and issue strings) are those of the same record with
\* each missing numeric field set to 0 and each missing list field empty.
C14_MissingFieldsAsZeroOrEmpty ==
    (sc_pc # "input" /\ MissingFields # {}) =>
        /\ sc_pc # "raised"
        /\ Scored =>
              LET got == sc_result.detailed_assessments
              IN  /\ got.hardware = assess_hardware_risk(FilledSystem)
                  /\ got.package_compatibility =
                        assess_package_compatibility(FilledSystem)
                  /\ got.services = assess_services_risk(FilledSystem)
                  /\ got.kernel_modules = assess_kernel_modules_risk(FilledSystem)

\* position of a pair among the pairs of a set, entries first, fragments
\* second: the order in which the two nested loops meet them
DiscoveryRank(pairs, pair) ==
    Cardinality({other \in pairs :
                    \/ other[1] < pair[1]
                    \/ other[1] = pair[1] /\ other[2] <= pair[2]})

\* "name (version)" of the i-th package of the host being scored
PackageLabel(i) ==
    LET pkg == normalize_package_name(
                   Get(sc_system, "packages", <<>>)[i],
                   normalize_os_family(Get(sc_system, "os_family", ""),
                                       Get(sc_system, "distribution", "")))
    IN  Str(pkg.name) \o " (" \o pkg.version \o ")"

\* C15: with N the number of (entry, fragment) pairs whose fragment the entry's
\* name contains, the package and services scores are those of N matches, the
\* first issue reports "Found N", the package issue list has 1 + min(5, N)
\* entries and the services issue list 1 + N, and the entry of the r-th pair in
\* discovery order is the (1 + r)-th issue (for packages as far as r <= 5), so
\* an entry containing k fragments is counted and listed k times.
C15_MatchesArePairs ==
    Scored =>
        LET pk == sc_result.detailed_assessments.package_compatibility
            sv == sc_result.detailed_assessments.services
            pp == FoldedPairs(PackageNames, PROBLEMATIC_PACKAGES)
            ps == ExactPairs(ServiceNames, PROBLEMATIC_SERVICES)
            np == Cardinality(pp)
            ns == Cardinality(ps)
        IN  /\ pk.score = MatchScore(np, 40, 10, 20)
            /\ sv.score = MatchScore(ns, 50, 15, 15)
            /\ Len(pk.issues) = 1 + Min(5, np)
            /\ Len(sv.issues) = 1 + ns
            /\ np >= 1 =>
                  pk.issues[1] =
                      "Found " \o ToString(np) \o " potentially problematic packages"
            /\ ns >= 1 =>
                  sv.issues[1] = "Found " \o ToString(ns) \o " services requiring attention"
            /\ \A pair \in pp :
                  DiscoveryRank(pp, pair) <= 5 =>
                      pk.issues[1 + DiscoveryRank(pp, pair)] = PackageLabel(pair[1])
            /\ \A pair \in ps :
                  sv.issues[1 + DiscoveryRank(ps, pair)] = Str(ServiceNames[pair[1]])

\* C15 witness: six packages give "Found 8", the first of them listed twice,
\* and the issue list stops after five of the eight
C15_Witness ==
    /\ Scored
    /\ Len(PackageNames) = 6
    /\ Cardinality(FoldedPairs(PackageNames, PROBLEMATIC_PACKAGES)) = 8
    /\ LET issues == sc_result.detailed_assessments.package_compatibility.issues
       IN  /\ issues[1] = "Found 8 potentially problematic packages"
           /\ Len(issues) = 6
           /\ issues[2] = issues[3]
    /\ Len(sc_result.detailed_assessments.services.issues) = 1 + 2

=============================================================================
